---- MODULE Spec2Model ----
(***************************************************************************)
(* The REST handlers of api/api.go (listMessages, createMessage,           *)
(* createReaction) run against their two collaborators, DB and Cache.      *)
(*                                                                         *)
(* Two specifications share the handler steps:                             *)
(*   Spec       the handlers against the test doubles testdb / testcache   *)
(*              of the api tests: a collaborator call may return any       *)
(*              value, or an error;                                        *)
(*   SpecStore  the handlers, each request on a goroutine of its own and   *)
(*              several in flight, against the stores: postgres.Postgres   *)
(*              and a cache that keeps the mirrored messages, either of    *)
(*              which may fail a call.                                     *)
(*   SpecSeq    as SpecStore, with the requests served one at a time, from  *)
(*              stores that hold the messages of earlier creates.          *)
(* A handler runs up to its next collaborator call in one step; a          *)
(* collaborator call and its return are one step.                          *)
(***************************************************************************)
EXTENDS Integers, Sequences, FiniteSets, TLC

\* ------------------------------------------------------------------------
\* Bounds
\* ------------------------------------------------------------------------
\* how many messages more than the limit it was given a test double may return
MaxExtra == 1
\* number of distinct messages the test doubles draw their results from
NMsg == 2
\* requests sent, in one run, to the server that runs against the stores
MaxRequests == 3
\* messages created before the run, when the requests are served one at a time
MaxPreload == 10

\* ------------------------------------------------------------------------
\* Program constants and values
\* ------------------------------------------------------------------------
pageSize == 10

StatusOK == 200
StatusCreated == 201
StatusBadRequest == 400
StatusInternalServerError == 500
StatusNotImplemented == 501

\* a text is the sequence of its parts, so that a formatted text is told
\* from its format; an error is its text, and nil is the empty one
Text(s) == <<s>>
NoErr == <<>>
ErrCollab == Text("something went wrong")
ErrDecode == Text("invalid character 'o' in literal null (expecting 'u')")

\* net/http serves every request on a goroutine of its own
Procs == 1 .. MaxRequests
\* the api tests serve one request per server
StubProcs == {1}

Texts == {"hello", "bye"}
Users == {"test"}
MessageIDs == {"12345", "67"}

\* time.Time: seconds, a sub-second part, and the location it is shown in
Time(sec, nsec, loc) == [sec |-> sec, nsec |-> nsec, loc |-> loc]
ZeroTime == Time(0, 0, "UTC")
\* what time.Now() may return to the handler
NowTimes == {Time(7, 1, "Local")}

\* Time.Format(time.RFC1123): "Mon, 02 Jan 2006 15:04:05 MST": the second
\* and the zone abbreviation of the time's own location; no sub-second part
FormatRFC1123(t) == <<"RFC1123", t.sec, t.loc>>

Message(id, text, user, at) ==
    [ID |-> id, Text |-> text, UserID |-> user, CreatedAt |-> at]
ZeroMessage == Message("", "", "", ZeroTime)

\* ------------------------------------------------------------------------
\* Request bodies and json.Decoder.Decode
\* ------------------------------------------------------------------------
\* a body is the JSON object it holds, as its key/value pairs, or no JSON at all
Body(valid, fields) == [valid |-> valid, fields |-> fields]
NotJSON == Body(FALSE, {})
JSONObject(keys, text, user) ==
    Body(TRUE, { <<k, IF k = "user_id" THEN user ELSE text>> : k \in keys })
MessageBodies ==
    {NotJSON} \cup
    { JSONObject(keys, t, u) :
        keys \in SUBSET {"text", "user_id"}, t \in Texts, u \in Users }
ReactionBodies ==
    {NotJSON} \cup
    { JSONObject(keys, t, u) :
        keys \in {{"type", "user_id"}, {"user_id"}}, t \in {"thumbs_up"}, u \in Users }

Field(obj, k) ==
    IF \E p \in obj.fields : p[1] = k
    THEN (CHOOSE p \in obj.fields : p[1] = k)[2]
    ELSE ""

\* Decode into createMessage's request struct: absent keys stay ""
DecodeMessageBody(raw) ==
    IF ~raw.valid
    THEN [err |-> ErrDecode, Text |-> "", UserID |-> ""]
    ELSE [err |-> NoErr, Text |-> Field(raw, "text"), UserID |-> Field(raw, "user_id")]

\* Decode into createReaction's request struct
DecodeReactionBody(raw) ==
    IF ~raw.valid
    THEN [err |-> ErrDecode, Type |-> "", UserID |-> ""]
    ELSE [err |-> NoErr, Type |-> Field(raw, "type"), UserID |-> Field(raw, "user_id")]

\* ------------------------------------------------------------------------
\* State
\* ------------------------------------------------------------------------
VARIABLES
    pc,       \* pc[r]: where handler r stands
    req,      \* req[r]: the request r is serving
    msgs,     \* msgs[r]: listMessages' local msgs
    msg,      \* msg[r]: createMessage's local msg
    calls,    \* calls[r]: the collaborator calls r made, with what they returned
    resp,     \* resp[r]: the responses r wrote to its ResponseWriter
    logs,     \* logs[r]: what r logged at error level
    db,       \* the durable store's rows, in insertion order
    cache,    \* the cache's messages, newest mirrored first
    clock,    \* the durable store's clock: the time of its last insert
    served    \* requests the server has taken so far

vars == <<pc, req, msgs, msg, calls, resp, logs, db, cache, clock, served>>
stores == <<db, cache, clock>>

NoRequest == [kind |-> "none", body |-> NotJSON, messageID |-> "", now |-> ZeroTime]

Init ==
    /\ pc = [r \in Procs |-> "idle"]
    /\ req = [r \in Procs |-> NoRequest]
    /\ msgs = [r \in Procs |-> <<>>]
    /\ msg = [r \in Procs |-> ZeroMessage]
    /\ calls = [r \in Procs |-> <<>>]
    /\ resp = [r \in Procs |-> <<>>]
    /\ logs = [r \in Procs |-> <<>>]
    /\ db = <<>>
    /\ cache = <<>>
    /\ clock = 0
    /\ served = 0

\* ------------------------------------------------------------------------
\* respond / respondError: a writer is the responses and the log so far
\* ------------------------------------------------------------------------
Writer(rs, ls) == [resp |-> rs, logs |-> ls]

respond(w, status, body) ==
    Writer(Append(w.resp, [status |-> status, body |-> body]), w.logs)

respondError(w, status, err, text) ==
    respond(Writer(w.resp, Append(w.logs, <<"Error", err>>)),
            status, [error |-> text])

LogError(w, what, err) == Writer(w.resp, Append(w.logs, <<what, err>>))

Call(op, args, ret, err) == [op |-> op, args |-> args, ret |-> ret, err |-> err]

\* ------------------------------------------------------------------------
\* listMessages
\* ------------------------------------------------------------------------
Remain(ms) == pageSize - Len(ms)

\* a DB.ListMessages call that always starts at the newest message
DBListArgs_NoOffset(ms) == <<0, Remain(ms)>>

\* a DB.ListMessages call that always asks for a whole page
DBListArgs_WholePage(ms) == <<Len(ms), pageSize>>

\* the offset and limit listMessages hands to DB.ListMessages
DBListArgs(ms) == <<Len(ms), Remain(ms)>>

\* an append that puts the durable store's messages first
AppendMsgs_DBFirst(ms, dbMsgs) == dbMsgs \o ms

\* listMessages' msgs = append(msgs, dbMsgs...)
AppendMsgs(ms, dbMsgs) == ms \o dbMsgs

\* listMessages' out: one JSON message per message, in order
OutMessages(ms) ==
    [i \in 1 .. Len(ms) |->
        [id |-> ms[i].ID, text |-> ms[i].Text, user_id |-> ms[i].UserID,
         created_at |-> FormatRFC1123(ms[i].CreatedAt)]]

ListResponse(ms) == [messages |-> OutMessages(ms)]

\* a listMessages that goes on after a failed cache read
AfterCacheList_IgnoreErr(w, ret) ==
    IF Remain(ret.msgs) > 0
    THEN [pc |-> "list_db", msgs |-> ret.msgs, w |-> w]
    ELSE [pc |-> "done", msgs |-> ret.msgs,
          w |-> respond(w, StatusOK, ListResponse(ret.msgs))]

\* a listMessages that answers a failed cache read and does not return
AfterCacheList_NoReturn(w, ret) ==
    IF ret.err # NoErr
    THEN [pc |-> "list_db", msgs |-> ret.msgs,
          w |-> respondError(w, StatusInternalServerError, ret.err,
                             Text("Could not list messages"))]
    ELSE IF Remain(ret.msgs) > 0
    THEN [pc |-> "list_db", msgs |-> ret.msgs, w |-> w]
    ELSE [pc |-> "done", msgs |-> ret.msgs,
          w |-> respond(w, StatusOK, ListResponse(ret.msgs))]

\* listMessages from the return of Cache.ListMessages to its next call or its end
AfterCacheList(w, ret) ==
    IF ret.err # NoErr
    THEN [pc |-> "done", msgs |-> ret.msgs,
          w |-> respondError(w, StatusInternalServerError, ret.err,
                             Text("Could not list messages"))]
    ELSE IF Remain(ret.msgs) > 0
    THEN [pc |-> "list_db", msgs |-> ret.msgs, w |-> w]
    ELSE [pc |-> "done", msgs |-> ret.msgs,
          w |-> respond(w, StatusOK, ListResponse(ret.msgs))]

\* a listMessages that answers with the cache's messages when the durable store fails
AfterDBList_PartialPage(w, ms, ret) ==
    IF ret.err # NoErr
    THEN [pc |-> "done", msgs |-> ms, w |-> respond(w, StatusOK, ListResponse(ms))]
    ELSE [pc |-> "done", msgs |-> AppendMsgs(ms, ret.msgs),
          w |-> respond(w, StatusOK, ListResponse(AppendMsgs(ms, ret.msgs)))]

\* listMessages from the return of DB.ListMessages to its end
AfterDBList(w, ms, ret) ==
    IF ret.err # NoErr
    THEN [pc |-> "done", msgs |-> ms,
          w |-> respondError(w, StatusInternalServerError, ret.err,
                             Text("Could not list messages"))]
    ELSE [pc |-> "done", msgs |-> AppendMsgs(ms, ret.msgs),
          w |-> respond(w, StatusOK, ListResponse(AppendMsgs(ms, ret.msgs)))]

\* ------------------------------------------------------------------------
\* createMessage
\* ------------------------------------------------------------------------
\* the message createMessage hands to DB.InsertMessage
NewMessage(body, now) == Message("", body.Text, body.UserID, now)

CreateResponse(m) ==
    [id |-> m.ID, text |-> m.Text, user_id |-> m.UserID,
     created_at |-> FormatRFC1123(m.CreatedAt)]

\* a createMessage that goes on after a failed decode
CreateBegin_IgnoreErr(w, raw) == [pc |-> "create_db", w |-> w]

\* createMessage from its start to its first call or its end
CreateBegin(w, raw) ==
    IF DecodeMessageBody(raw).err # NoErr
    THEN [pc |-> "done",
          w |-> respondError(w, StatusBadRequest, DecodeMessageBody(raw).err,
                             Text("Could not decode request body"))]
    ELSE [pc |-> "create_db", w |-> w]

\* a createMessage that mirrors the message although the insert failed
AfterDBInsert_IgnoreErr(w, sent, ret) == [pc |-> "create_cache", msg |-> ret.msg, w |-> w]

\* a createMessage that keeps the message it sent, not the one returned
AfterDBInsert_KeepSent(w, sent, ret) ==
    IF ret.err # NoErr
    THEN [pc |-> "done", msg |-> sent,
          w |-> respondError(w, StatusInternalServerError, ret.err,
                             Text("Could not insert message"))]
    ELSE [pc |-> "create_cache", msg |-> sent, w |-> w]

\* a createMessage that puts its own timestamp on the message returned
AfterDBInsert_OwnTimestamp(w, sent, ret) ==
    IF ret.err # NoErr
    THEN [pc |-> "done", msg |-> ret.msg,
          w |-> respondError(w, StatusInternalServerError, ret.err,
                             Text("Could not insert message"))]
    ELSE [pc |-> "create_cache",
          msg |-> [ret.msg EXCEPT !.CreatedAt = sent.CreatedAt], w |-> w]

\* a createMessage that calls DB.InsertMessage again when it failed
AfterDBInsert_Retry(w, sent, ret) ==
    IF ret.err # NoErr
    THEN [pc |-> "create_db", msg |-> ret.msg, w |-> w]
    ELSE [pc |-> "create_cache", msg |-> ret.msg, w |-> w]

\* createMessage from the return of DB.InsertMessage(sent) to its next call or its end
AfterDBInsert(w, sent, ret) ==
    IF ret.err # NoErr
    THEN [pc |-> "done", msg |-> ret.msg,
          w |-> respondError(w, StatusInternalServerError, ret.err,
                             Text("Could not insert message"))]
    ELSE [pc |-> "create_cache", msg |-> ret.msg, w |-> w]

\* a createMessage that fails the request when the mirror write fails
AfterCacheInsert_Surface(w, m, err) ==
    [pc |-> "done",
     w |-> IF err # NoErr
           THEN respondError(w, StatusInternalServerError, err,
                             Text("Could not cache message"))
           ELSE respond(w, StatusCreated, CreateResponse(m))]

\* createMessage from the return of Cache.InsertMessage(m) to its end
AfterCacheInsert(w, m, err) ==
    [pc |-> "done",
     w |-> respond(IF err # NoErr
                   THEN LogError(w, "Could not cache message", err)
                   ELSE w,
                   StatusCreated, CreateResponse(m))]

\* ------------------------------------------------------------------------
\* createReaction
\* ------------------------------------------------------------------------
\* fmt.Errorf("could not create reaction for message with id %s", messageID)
ReactionError(messageID) ==
    <<"could not create reaction for message with id ", messageID>>

\* a createReaction that does not look at the decode error
CreateReaction_NoDecodeCheck(w, messageID, raw) ==
    respondError(w, StatusNotImplemented, ReactionError(messageID),
                 ReactionError(messageID))

\* createReaction, the whole handler
CreateReaction(w, messageID, raw) ==
    IF DecodeReactionBody(raw).err # NoErr
    THEN respondError(w, StatusBadRequest, DecodeReactionBody(raw).err,
                      Text("Could not decode request body"))
    ELSE respondError(w, StatusNotImplemented, ReactionError(messageID),
                      ReactionError(messageID))

\* ------------------------------------------------------------------------
\* ServeHTTP: a request arrives at an idle handler and is routed; the
\* handler runs to its first collaborator call
\* ------------------------------------------------------------------------
Request(kind, body, messageID, now) ==
    [kind |-> kind, body |-> body, messageID |-> messageID, now |-> now]

Fresh == Writer(<<>>, <<>>)

ServeList(r) ==
    /\ pc[r] = "idle"
    /\ pc' = [pc EXCEPT ![r] = "list_cache"]
    /\ req' = [req EXCEPT ![r] = Request("list", NotJSON, "", ZeroTime)]
    /\ UNCHANGED <<msgs, msg, calls, resp, logs, stores>>

ServeCreate(r, raw, now) ==
    /\ pc[r] = "idle"
    /\ pc' = [pc EXCEPT ![r] = CreateBegin(Fresh, raw).pc]
    /\ req' = [req EXCEPT ![r] = Request("create", raw, "", now)]
    /\ resp' = [resp EXCEPT ![r] = CreateBegin(Fresh, raw).w.resp]
    /\ logs' = [logs EXCEPT ![r] = CreateBegin(Fresh, raw).w.logs]
    /\ UNCHANGED <<msgs, msg, calls, stores>>

ServeReaction(r, messageID, raw) ==
    /\ pc[r] = "idle"
    /\ pc' = [pc EXCEPT ![r] = "done"]
    /\ req' = [req EXCEPT ![r] = Request("reaction", raw, messageID, ZeroTime)]
    /\ resp' = [resp EXCEPT ![r] = CreateReaction(Fresh, messageID, raw).resp]
    /\ logs' = [logs EXCEPT ![r] = CreateReaction(Fresh, messageID, raw).logs]
    /\ UNCHANGED <<msgs, msg, calls, stores>>

\* the handler has returned and the test's server is closed; the next test
\* starts a server of its own
Finish(r) ==
    /\ pc[r] = "done"
    /\ pc' = [pc EXCEPT ![r] = "idle"]
    /\ req' = [req EXCEPT ![r] = NoRequest]
    /\ msgs' = [msgs EXCEPT ![r] = <<>>]
    /\ msg' = [msg EXCEPT ![r] = ZeroMessage]
    /\ calls' = [calls EXCEPT ![r] = <<>>]
    /\ resp' = [resp EXCEPT ![r] = <<>>]
    /\ logs' = [logs EXCEPT ![r] = <<>>]
    /\ UNCHANGED stores

\* ------------------------------------------------------------------------
\* The handlers' collaborator calls, for a given return
\* ------------------------------------------------------------------------
W(r) == Writer(resp[r], logs[r])

\* msgs, err := a.Cache.ListMessages(ctx, pageSize), and on to the next call
ListCacheCall(r, ret) ==
    /\ pc[r] = "list_cache"
    /\ calls' = [calls EXCEPT ![r] =
                    Append(@, Call("Cache.ListMessages", <<pageSize>>, ret.msgs, ret.err))]
    /\ pc' = [pc EXCEPT ![r] = AfterCacheList(W(r), ret).pc]
    /\ msgs' = [msgs EXCEPT ![r] = AfterCacheList(W(r), ret).msgs]
    /\ resp' = [resp EXCEPT ![r] = AfterCacheList(W(r), ret).w.resp]
    /\ logs' = [logs EXCEPT ![r] = AfterCacheList(W(r), ret).w.logs]
    /\ UNCHANGED <<req, msg>>

\* dbMsgs, err := a.DB.ListMessages(ctx, len(msgs), remain), and on to the end
ListDBCall(r, ret) ==
    /\ pc[r] = "list_db"
    /\ calls' = [calls EXCEPT ![r] =
                    Append(@, Call("DB.ListMessages", DBListArgs(msgs[r]), ret.msgs, ret.err))]
    /\ pc' = [pc EXCEPT ![r] = AfterDBList(W(r), msgs[r], ret).pc]
    /\ msgs' = [msgs EXCEPT ![r] = AfterDBList(W(r), msgs[r], ret).msgs]
    /\ resp' = [resp EXCEPT ![r] = AfterDBList(W(r), msgs[r], ret).w.resp]
    /\ logs' = [logs EXCEPT ![r] = AfterDBList(W(r), msgs[r], ret).w.logs]
    /\ UNCHANGED <<req, msg>>

Sent(r) == NewMessage(DecodeMessageBody(req[r].body), req[r].now)

\* msg, err := a.DB.InsertMessage(ctx, Message{...}), and on to the next call
CreateDBCall(r, ret) ==
    /\ pc[r] = "create_db"
    /\ calls' = [calls EXCEPT ![r] =
                    Append(@, Call("DB.InsertMessage", <<Sent(r)>>, ret.msg, ret.err))]
    /\ pc' = [pc EXCEPT ![r] = AfterDBInsert(W(r), Sent(r), ret).pc]
    /\ msg' = [msg EXCEPT ![r] = AfterDBInsert(W(r), Sent(r), ret).msg]
    /\ resp' = [resp EXCEPT ![r] = AfterDBInsert(W(r), Sent(r), ret).w.resp]
    /\ logs' = [logs EXCEPT ![r] = AfterDBInsert(W(r), Sent(r), ret).w.logs]
    /\ UNCHANGED <<req, msgs>>

\* err := a.Cache.InsertMessage(ctx, msg), and on to the end
CreateCacheCall(r, err) ==
    /\ pc[r] = "create_cache"
    /\ calls' = [calls EXCEPT ![r] =
                    Append(@, Call("Cache.InsertMessage", <<msg[r]>>, msg[r], err))]
    /\ pc' = [pc EXCEPT ![r] = AfterCacheInsert(W(r), msg[r], err).pc]
    /\ resp' = [resp EXCEPT ![r] = AfterCacheInsert(W(r), msg[r], err).w.resp]
    /\ logs' = [logs EXCEPT ![r] = AfterCacheInsert(W(r), msg[r], err).w.logs]
    /\ UNCHANGED <<req, msgs, msg>>

\* ------------------------------------------------------------------------
\* The test doubles testdb and testcache: a call returns what the test's
\* function returns, which is any value or an error; they keep no state
\* ------------------------------------------------------------------------
StubMessage(k) ==
    Message(ToString(k + 1), IF k % 2 = 0 THEN "hello" ELSE "world", "testuser",
            Time(k + 1, k % 2, IF k % 2 = 0 THEN "UTC" ELSE "CET"))

\* n messages from the k-th on, each the next one (step 1) or all the same (step 0)
StubList(n, k, step) == [i \in 1 .. n |-> StubMessage((k + (i - 1) * step) % NMsg)]

StubLists(maxLen) ==
    { StubList(n, k, step) : n \in 0 .. maxLen, k \in 0 .. NMsg - 1, step \in 0 .. 1 }

ListReturn(ms, err) == [msgs |-> ms, err |-> err]
InsertReturn(m, err) == [msg |-> m, err |-> err]

\* what a test double's listMessages may return when asked for limit messages
StubListReturns(limit) ==
    { ListReturn(ms, NoErr) : ms \in StubLists(limit + MaxExtra) }
        \cup { ListReturn(<<>>, ErrCollab), ListReturn(StubList(1, 0, 1), ErrCollab) }

\* what testdb's insertMessage may return for m
StubInsertReturns(m) ==
    { InsertReturn(StubMessage(k), NoErr) : k \in 0 .. NMsg - 1 }
        \cup { InsertReturn(Message("1", m.Text, m.UserID, Time(1, 0, "UTC")), NoErr),
               InsertReturn(ZeroMessage, ErrCollab) }

StubCacheList(r) ==
    /\ pc[r] = "list_cache"
    /\ \E ret \in StubListReturns(pageSize) :
        ListCacheCall(r, ret) /\ UNCHANGED <<stores, served>>

StubDBList(r) ==
    /\ pc[r] = "list_db"
    /\ \E ret \in StubListReturns(DBListArgs(msgs[r])[2]) :
        ListDBCall(r, ret) /\ UNCHANGED <<stores, served>>

StubDBInsert(r) ==
    /\ pc[r] = "create_db"
    /\ \E ret \in StubInsertReturns(Sent(r)) :
        CreateDBCall(r, ret) /\ UNCHANGED <<stores, served>>

StubCacheInsert(r) ==
    /\ pc[r] = "create_cache"
    /\ \E err \in {NoErr, ErrCollab} :
        CreateCacheCall(r, err) /\ UNCHANGED <<stores, served>>

StubServeList == \E r \in StubProcs : ServeList(r) /\ UNCHANGED served
StubServeCreate ==
    \E r \in StubProcs, raw \in MessageBodies, now \in NowTimes :
        ServeCreate(r, raw, now) /\ UNCHANGED served
StubServeReaction ==
    \E r \in StubProcs, id \in MessageIDs, raw \in ReactionBodies :
        ServeReaction(r, id, raw) /\ UNCHANGED served
StubFinish == \E r \in StubProcs : Finish(r) /\ UNCHANGED served
StubCalls ==
    \E r \in StubProcs :
        StubCacheList(r) \/ StubDBList(r) \/ StubDBInsert(r) \/ StubCacheInsert(r)

Next ==
    \/ StubServeList
    \/ StubServeCreate
    \/ StubServeReaction
    \/ StubCalls
    \/ StubFinish

Spec == Init /\ [][Next]_vars

\* every collaborator call returns
SpecLive == Spec /\ WF_vars(StubCalls)

\* ------------------------------------------------------------------------
\* The stores: postgres.Postgres, and a cache that keeps what is mirrored
\* ------------------------------------------------------------------------
Min(a, b) == IF a < b THEN a ELSE b

Before(s, t) == s.sec < t.sec \/ (s.sec = t.sec /\ s.nsec < t.nsec)

\* rows without its i-th row
Without(rows, i) == SubSeq(rows, 1, i - 1) \o SubSeq(rows, i + 1, Len(rows))

\* the orders ORDER BY created_at DESC may give the rows: rows with equal
\* created_at come in either order
RECURSIVE NewestFirst(_)
NewestFirst(rows) ==
    IF rows = <<>>
    THEN {<<>>}
    ELSE UNION { { <<rows[i]>> \o rest : rest \in NewestFirst(Without(rows, i)) } :
                    i \in { j \in 1 .. Len(rows) :
                              \A k \in 1 .. Len(rows) :
                                  ~Before(rows[j].CreatedAt, rows[k].CreatedAt) } }

\* fmt.Errorf("scan: %w", err), fmt.Errorf("insert: %w", err)
ErrScan == <<"scan: ">> \o ErrCollab
ErrInsert == <<"insert: ">> \o ErrCollab

\* Postgres.ListMessages: what the query may return, or that it failed
PgListMessages(rows, offset, limit) ==
    { ListReturn(SubSeq(sorted, offset + 1, Min(offset + limit, Len(sorted))), NoErr) :
        sorted \in NewestFirst(rows) }
        \cup { ListReturn(<<>>, ErrScan) }

\* an insert that stores the creation timestamp it was handed
PgRow_KeepsCreatedAt(rows, m, now) ==
    Message(ToString(Len(rows) + 1), m.Text, m.UserID, m.CreatedAt)

\* the row Postgres.InsertMessage inserts for m at the store's time now: only
\* the text and the user are taken from m, the id and created_at are generated
PgRow(rows, m, now) == Message(ToString(Len(rows) + 1), m.Text, m.UserID, Time(now, 0, "UTC"))

\* Cache.ListMessages: the newest limit messages, newest first
CacheListMessages(c, limit) == SubSeq(c, 1, Min(limit, Len(c)))

\* Cache.InsertMessage: m becomes the newest message of the cache
CacheInsertMessage(c, m) == <<m>> \o c

StoreCacheList(r) ==
    /\ pc[r] = "list_cache"
    /\ \E ret \in {ListReturn(CacheListMessages(cache, pageSize), NoErr),
                ListReturn(<<>>, ErrCollab)} :
        ListCacheCall(r, ret) /\ UNCHANGED <<stores, served>>

\* a durable-store read that fills the cache with the messages it returned
StoreDBList_Backfill(r) ==
    /\ pc[r] = "list_db"
    /\ \E ret \in PgListMessages(db, DBListArgs(msgs[r])[1], DBListArgs(msgs[r])[2]) :
        /\ ListDBCall(r, ret)
        /\ cache' = cache \o ret.msgs
        /\ UNCHANGED <<db, clock, served>>

StoreDBList(r) ==
    /\ pc[r] = "list_db"
    /\ \E ret \in PgListMessages(db, DBListArgs(msgs[r])[1], DBListArgs(msgs[r])[2]) :
        ListDBCall(r, ret) /\ UNCHANGED <<stores, served>>

\* the insert succeeds, at the time of the last insert or later, or fails
StoreDBInsert(r) ==
    \/ \E now \in {clock, clock + 1} :
        /\ pc[r] = "create_db"
        /\ CreateDBCall(r, InsertReturn(PgRow(db, Sent(r), now), NoErr))
        /\ db' = Append(db, PgRow(db, Sent(r), now))
        /\ clock' = now
        /\ UNCHANGED <<cache, served>>
    \/ /\ CreateDBCall(r, InsertReturn(ZeroMessage, ErrInsert))
       /\ UNCHANGED <<stores, served>>

StoreCacheInsert(r) ==
    \/ /\ CreateCacheCall(r, NoErr)
       /\ cache' = CacheInsertMessage(cache, msg[r])
       /\ UNCHANGED <<db, clock, served>>
    \/ /\ CreateCacheCall(r, ErrCollab)
       /\ UNCHANGED <<stores, served>>

\* the requests sent to the server that runs against the stores
StoreMessageBodies == {NotJSON, JSONObject({"text", "user_id"}, "hello", "test")}
StoreReactionBodies == {JSONObject({"type", "user_id"}, "thumbs_up", "test")}

\* the server takes its next request, r, while earlier ones may be in flight
Take(r) == served < MaxRequests /\ r = served + 1 /\ served' = r

StoreServeList == \E r \in Procs : Take(r) /\ ServeList(r)
StoreServeCreate ==
    \E r \in Procs, raw \in StoreMessageBodies, now \in NowTimes :
        Take(r) /\ ServeCreate(r, raw, now)
StoreServeReaction ==
    \E r \in Procs, raw \in StoreReactionBodies : Take(r) /\ ServeReaction(r, "12345", raw)
StoreLists == \E r \in Procs : StoreCacheList(r) \/ StoreDBList(r)
StoreInserts == \E r \in Procs : StoreDBInsert(r) \/ StoreCacheInsert(r)

NextStore ==
    \/ StoreServeList
    \/ StoreServeCreate
    \/ StoreServeReaction
    \/ StoreLists
    \/ StoreInserts

SpecStore == Init /\ [][NextStore]_vars

\* ------------------------------------------------------------------------
\* The same server and stores with the requests served one at a time, after
\* k create requests that were served one at a time and succeeded; the cache
\* holds their messages, or is cold: it has been restarted and holds none
\* ------------------------------------------------------------------------
RECURSIVE Preloaded(_)
Preloaded(k) ==
    IF k = 0
    THEN [db |-> <<>>, cache |-> <<>>]
    ELSE LET before == Preloaded(k - 1)
             row == PgRow(before.db,
                          NewMessage(DecodeMessageBody(
                              JSONObject({"text", "user_id"}, "hello", "test")),
                              Time(7, 1, "Local")),
                          k)
         IN  [db |-> Append(before.db, row),
              cache |-> CacheInsertMessage(before.cache, row)]

InitSeq ==
    /\ pc = [r \in Procs |-> "idle"]
    /\ req = [r \in Procs |-> NoRequest]
    /\ msgs = [r \in Procs |-> <<>>]
    /\ msg = [r \in Procs |-> ZeroMessage]
    /\ calls = [r \in Procs |-> <<>>]
    /\ resp = [r \in Procs |-> <<>>]
    /\ logs = [r \in Procs |-> <<>>]
    /\ served = 0
    /\ \E k \in 0 .. MaxPreload, cold \in BOOLEAN :
          /\ db = Preloaded(k).db
          /\ cache = IF cold THEN <<>> ELSE Preloaded(k).cache
          /\ clock = k

\* the server takes its next request once the earlier ones have been answered
TakeNext(r) == Take(r) /\ \A q \in Procs : pc[q] \in {"idle", "done"}

SeqServeList == \E r \in Procs : TakeNext(r) /\ ServeList(r)
SeqServeCreate ==
    \E r \in Procs, raw \in StoreMessageBodies, now \in NowTimes :
        TakeNext(r) /\ ServeCreate(r, raw, now)
SeqServeReaction ==
    \E r \in Procs, raw \in StoreReactionBodies :
        TakeNext(r) /\ ServeReaction(r, "12345", raw)
SeqLists == \E r \in Procs : StoreCacheList(r) \/ StoreDBList(r)
SeqInserts == \E r \in Procs : StoreDBInsert(r) \/ StoreCacheInsert(r)

NextSeq ==
    \/ SeqServeList
    \/ SeqServeCreate
    \/ SeqServeReaction
    \/ SeqLists
    \/ SeqInserts

SpecSeq == InitSeq /\ [][NextSeq]_vars

\* ------------------------------------------------------------------------
\* Properties
\* ------------------------------------------------------------------------
Serving(r, kind) == req[r].kind = kind
Ended(r, kind) == req[r].kind = kind /\ pc[r] = "done"
NCalls(r, op) == Len(SelectSeq(calls[r], LAMBDA c : c.op = op))
ErrorResponse(status, text) == [status |-> status, body |-> [error |-> Text(text)]]

\* the cache read of list request r has returned, without error
CacheListed(r) ==
    Serving(r, "list") /\ Len(calls[r]) >= 1 /\ calls[r][1].err = NoErr
\* the durable-store read of list request r has returned
DBListed(r) == Serving(r, "list") /\ Len(calls[r]) >= 2

\* C1: in a list request the cache is asked for 10 messages; when it returns
\* c < 10 of them the durable store is queried with offset c and limit 10 - c,
\* and when it returns 10 the durable store is not queried at all.
C1_DBQueriedForTheRemainder ==
    \A r \in Procs :
        CacheListed(r) =>
            /\ calls[r][1].op = "Cache.ListMessages"
            /\ calls[r][1].args = <<10>>
            /\ Len(calls[r][1].ret) < 10 =>
                  /\ pc[r] \in {"list_db", "done"}
                  /\ pc[r] = "done" => Len(calls[r]) = 2
                  /\ DBListed(r) =>
                        /\ calls[r][2].op = "DB.ListMessages"
                        /\ calls[r][2].args =
                              <<Len(calls[r][1].ret), 10 - Len(calls[r][1].ret)>>
            /\ Len(calls[r][1].ret) = 10 =>
                  /\ pc[r] = "done"
                  /\ Len(calls[r]) = 1

\* a list request whose cache returned 9 messages has queried the durable store
C1_Witness ==
    \E r \in Procs :
        /\ CacheListed(r) /\ DBListed(r)
        /\ Len(calls[r][1].ret) = 9
        /\ calls[r][2].args = <<9, 1>>

\* what the durable store returned to list request r, nothing when it was not asked
DBReturned(r) == IF Len(calls[r]) >= 2 THEN calls[r][2].ret ELSE <<>>

ListSucceeded(r) ==
    Ended(r, "list") /\ Len(resp[r]) >= 1 /\ resp[r][1].status = StatusOK

\* C2: a successful list response holds exactly the messages the cache
\* returned, in the cache's order, followed by exactly those the durable store
\* returned, in its order: nothing reordered, dropped, de-duplicated or added.
C2_CacheThenDB ==
    \A r \in Procs :
        ListSucceeded(r) =>
            /\ Len(resp[r]) = 1
            /\ resp[r][1].body.messages =
                  OutMessages(calls[r][1].ret) \o OutMessages(DBReturned(r))

\* a successful list whose cache and durable store both returned the same message
C2_Witness ==
    \E r \in Procs :
        /\ ListSucceeded(r)
        /\ calls[r][1].ret = <<StubMessage(0)>>
        /\ DBReturned(r) = <<StubMessage(0), StubMessage(1)>>

\* C3, as claimed: whatever the cache and the durable store return, a
\* successful list response never holds more than 10 messages.
C3_AtMostAPage_AsClaimed ==
    \A r \in Procs :
        ListSucceeded(r) => Len(resp[r][1].body.messages) <= 10

\* the collaborators of list request r returned no more than they were asked for
WithinLimits(r) ==
    /\ Len(calls[r][1].ret) <= calls[r][1].args[1]
    /\ Len(calls[r]) >= 2 => Len(calls[r][2].ret) <= calls[r][2].args[2]

\* C3, amended: when the cache returns at most the 10 messages it was asked
\* for and the durable store at most the limit it was asked for, a successful
\* list response never holds more than 10 messages.
C3_AtMostAPage ==
    \A r \in Procs :
        ListSucceeded(r) /\ WithinLimits(r) => Len(resp[r][1].body.messages) <= 10

\* a full page made of 4 messages of the cache and 6 of the durable store
C3_Witness ==
    \E r \in Procs :
        /\ ListSucceeded(r) /\ WithinLimits(r)
        /\ Len(calls[r][1].ret) = 4
        /\ Len(DBReturned(r)) = 6
        /\ Len(resp[r][1].body.messages) = 10

\* C4: when the cache read fails the list request ends with 500 and "Could
\* not list messages", the durable store is never queried and no message is
\* returned.
C4_CacheReadFails ==
    \A r \in Procs :
        (Serving(r, "list") /\ Len(calls[r]) >= 1 /\ calls[r][1].err # NoErr) =>
            /\ pc[r] = "done"
            /\ resp[r] = <<ErrorResponse(500, "Could not list messages")>>
            /\ Len(calls[r]) = 1
            /\ NCalls(r, "DB.ListMessages") = 0

\* a cache read that failed although the cache handed back a message
C4_Witness ==
    \E r \in Procs :
        /\ Ended(r, "list")
        /\ calls[r][1].err = ErrCollab
        /\ calls[r][1].ret = <<StubMessage(0)>>

\* C5: when the durable-store read fails the list request ends with 500 and
\* "Could not list messages" and none of the cache's messages; a list
\* response is a complete page or an error, never a partial page.
C5_DBReadFails ==
    \A r \in Procs :
        /\ (DBListed(r) /\ calls[r][2].err # NoErr) =>
              /\ pc[r] = "done"
              /\ resp[r] = <<ErrorResponse(500, "Could not list messages")>>
        /\ ListSucceeded(r) =>
              /\ \A i \in 1 .. Len(calls[r]) : calls[r][i].err = NoErr
              /\ Len(calls[r][1].ret) < 10 => Len(calls[r]) = 2

\* the durable-store read failed after the cache had returned 3 messages
C5_Witness ==
    \E r \in Procs :
        /\ Ended(r, "list") /\ DBListed(r)
        /\ Len(calls[r][1].ret) = 3
        /\ calls[r][2].err = ErrCollab

\* the durable-store insert of create request r has returned
DBInserted(r) == Serving(r, "create") /\ Len(calls[r]) >= 1
\* the cache mirror write of create request r has returned
CacheInserted(r) == Serving(r, "create") /\ Len(calls[r]) >= 2

\* C6: when the durable-store insert fails the create request ends with 500
\* and "Could not insert message", Cache.InsertMessage is never called in it,
\* and it leaves the cache's contents as they were.
C6_InsertFails ==
    /\ [](\A r \in Procs :
            (DBInserted(r) /\ calls[r][1].err # NoErr) =>
                /\ pc[r] = "done"
                /\ resp[r] = <<ErrorResponse(500, "Could not insert message")>>
                /\ NCalls(r, "Cache.InsertMessage") = 0)
    /\ [][\A r \in Procs :
            (Serving(r, "create") /\ pc[r] # pc'[r]
                /\ Len(calls'[r]) >= 1 /\ calls'[r][1].err # NoErr) =>
                cache' = cache]_vars

\* a create request failed at the insert while the cache held a message
C6_Witness ==
    \E r \in Procs :
        /\ Ended(r, "create") /\ DBInserted(r)
        /\ calls[r][1].err # NoErr
        /\ Len(cache) = 1

\* C7: when the insert succeeds and the mirror write fails, the caller gets
\* 201 and the body it gets when the mirror write succeeds; the failure is
\* logged ("Could not cache message") and the mirror write is not retried.
C7_MirrorFailureAbsorbed ==
    \A r \in Procs :
        (CacheInserted(r) /\ calls[r][2].err # NoErr) =>
            /\ pc[r] = "done"
            /\ Len(resp[r]) = 1
            /\ resp[r][1].status = 201
            /\ resp[r] = AfterCacheInsert(Fresh, calls[r][1].ret, NoErr).w.resp
            /\ logs[r] = << <<"Could not cache message", calls[r][2].err>> >>
            /\ NCalls(r, "Cache.InsertMessage") = 1
            /\ Len(calls[r]) = 2

\* a create request whose mirror write failed
C7_Witness ==
    \E r \in Procs :
        /\ Ended(r, "create") /\ CacheInserted(r)
        /\ calls[r][2].err = ErrCollab
        /\ calls[r][1].ret = StubMessage(1)

CreateSucceeded(r) ==
    Ended(r, "create") /\ Len(resp[r]) >= 1 /\ resp[r][1].status = StatusCreated

\* C8: in a successful create response the id, text, author id and creation
\* timestamp are those of the message DB.InsertMessage returned, not values
\* supplied by the caller or computed by the handler.
C8_ResponseIsTheStoredMessage ==
    \A r \in Procs :
        CreateSucceeded(r) =>
            /\ calls[r][1].op = "DB.InsertMessage"
            /\ calls[r][1].err = NoErr
            /\ resp[r][1].body.id = calls[r][1].ret.ID
            /\ resp[r][1].body.text = calls[r][1].ret.Text
            /\ resp[r][1].body.user_id = calls[r][1].ret.UserID
            /\ resp[r][1].body.created_at = FormatRFC1123(calls[r][1].ret.CreatedAt)

\* a create whose stored message differs from what the caller and handler sent
C8_Witness ==
    \E r \in Procs :
        /\ CreateSucceeded(r)
        /\ calls[r][1].args[1].Text = "hello"
        /\ calls[r][1].ret.Text = "world"
        /\ calls[r][1].ret.UserID # calls[r][1].args[1].UserID
        /\ calls[r][1].ret.CreatedAt # calls[r][1].args[1].CreatedAt

Undecodable(r) == DecodeMessageBody(req[r].body).err # NoErr

\* C9: a create request whose body cannot be decoded is answered 400 and
\* "Could not decode request body", calls neither the durable store nor the
\* cache, and leaves both stores as they were.
C9_UndecodableCreate ==
    /\ [](\A r \in Procs :
            (Serving(r, "create") /\ Undecodable(r)) =>
                /\ pc[r] = "done"
                /\ resp[r] = <<ErrorResponse(400, "Could not decode request body")>>
                /\ calls[r] = <<>>)
    /\ [][\A r \in Procs :
            (pc[r] # pc'[r] /\ req'[r].kind = "create"
                /\ DecodeMessageBody(req'[r].body).err # NoErr) =>
                (db' = db /\ cache' = cache)]_vars

\* an undecodable create request was answered while the stores held a message
C9_Witness ==
    \E r \in Procs :
        /\ Ended(r, "create") /\ Undecodable(r)
        /\ Len(db) = 1 /\ Len(cache) = 1

ReactionAnswered(r) ==
    Ended(r, "reaction") /\ DecodeReactionBody(req[r].body).err = NoErr

\* C11: a well-formed reaction request is answered 201, with the reaction the
\* durable store's InsertReaction returned as its body.
C11_ReactionCreated ==
    \A r \in Procs :
        ReactionAnswered(r) =>
            /\ Len(resp[r]) = 1
            /\ resp[r][1].status = 201
            /\ NCalls(r, "DB.InsertReaction") = 1

\* the error responses request r wrote
ErrorResponses(r) ==
    { i \in 1 .. Len(resp[r]) : resp[r][i].status >= 400 }

\* the texts of the errors request r logged
Logged(r) == { logs[r][i][2] : i \in 1 .. Len(logs[r]) }

\* C12: in no error response of the three endpoints is the error string sent
\* to the client the text of the underlying error the handler logs: the
\* client gets a generic message and the cause is only logged.
C12_NoErrorLeaked ==
    \A r \in Procs :
        \A i \in ErrorResponses(r) :
            /\ Logged(r) # {}
            /\ resp[r][i].body.error \notin Logged(r)

\* the message create request r handed to DB.InsertMessage
Inserted(r) == calls[r][1].args[1]

\* C13, as claimed: the message handed to DB.InsertMessage has an empty
\* identity and an unset creation timestamp.
C13_StoreAssignsIdentityAndTime_AsClaimed ==
    \A r \in Procs :
        DBInserted(r) =>
            /\ Inserted(r).ID = ""
            /\ Inserted(r).CreatedAt = ZeroTime

\* C13, amended: the message handed to DB.InsertMessage has an empty identity
\* and the handler's time.Now() as its creation timestamp; the durable store
\* ignores that timestamp, and the identity and creation timestamp of the row
\* it stores and returns are the ones it generates.
C13_StoreAssignsIdentityAndTime ==
    \A r \in Procs :
        DBInserted(r) =>
            /\ Inserted(r).ID = ""
            /\ Inserted(r).CreatedAt = req[r].now
            /\ calls[r][1].err = NoErr =>
                  /\ calls[r][1].ret.ID # ""
                  /\ \E i \in 1 .. Len(db) : db[i] = calls[r][1].ret
                  /\ \E t \in 0 .. clock : calls[r][1].ret.CreatedAt = Time(t, 0, "UTC")
                  /\ calls[r][1].ret.Text = Inserted(r).Text
                  /\ calls[r][1].ret.UserID = Inserted(r).UserID
            /\ calls[r][1].err # NoErr => calls[r][1].ret = ZeroMessage

\* a message was stored whose creation timestamp is not the one the handler set
C13_Witness ==
    \E r \in Procs :
        /\ DBInserted(r)
        /\ calls[r][1].err = NoErr
        /\ Inserted(r).CreatedAt # ZeroTime
        /\ calls[r][1].ret.CreatedAt # Inserted(r).CreatedAt

\* every create request taken so far has ended, and every insert and every
\* mirror write made for one has succeeded
CreatesSucceeded ==
    \A r \in Procs :
        Serving(r, "create") =>
            /\ pc[r] = "done"
            /\ \A i \in 1 .. Len(calls[r]) : calls[r][i].err = NoErr

IsPrefix(s, t) == Len(s) <= Len(t) /\ s = SubSeq(t, 1, Len(s))

\* C14: after any interleaving of concurrently handled create requests whose
\* inserts and mirror writes all succeed, the cache, newest mirrored first, is
\* a prefix of the durable store's newest-first order.
C14_CacheIsPrefixOfStore ==
    CreatesSucceeded => \E sorted \in NewestFirst(db) : IsPrefix(cache, sorted)

\* the newest min(pageSize, n) of the n stored messages, in a newest-first order
NewestPages == { SubSeq(sorted, 1, Min(pageSize, Len(sorted))) : sorted \in NewestFirst(db) }

NoDuplicates(out) == \A i, j \in 1 .. Len(out) : out[i].id = out[j].id => i = j

\* create request r stored its message and failed to mirror it
MirrorFailed(r) ==
    /\ Ended(r, "create")
    /\ Len(calls[r]) = 2
    /\ calls[r][1].err = NoErr
    /\ calls[r][2].err # NoErr

\* list request r read both stores (or the cache alone) without error and is
\* the latest request served
ListedLast(r) ==
    /\ r = served
    /\ Ended(r, "list")
    /\ \A i \in 1 .. Len(calls[r]) : calls[r][i].err = NoErr

\* C15: with the requests served one at a time, the list request served right
\* after a create request that stored its message but failed to mirror it
\* answers with the newest min(10, n) stored messages, newest first, the
\* message just created among them and none of them twice.
C15_ListAfterFailedMirror ==
    \A r \in Procs :
        (r > 1 /\ ListedLast(r) /\ MirrorFailed(r - 1)) =>
            /\ Len(resp[r]) = 1
            /\ resp[r][1].status = StatusOK
            /\ \E page \in NewestPages : resp[r][1].body = ListResponse(page)
            /\ NoDuplicates(resp[r][1].body.messages)
            /\ \E i \in 1 .. Len(resp[r][1].body.messages) :
                   resp[r][1].body.messages[i].id = calls[r - 1][1].ret.ID

ListOps == {"Cache.ListMessages", "DB.ListMessages"}
InsertOps == {"DB.InsertMessage", "Cache.InsertMessage"}

\* the collaborator operations a request of the given kind may invoke
OpsOf(kind) ==
    IF kind = "list" THEN ListOps ELSE IF kind = "create" THEN InsertOps ELSE {}

\* C16: within one request each collaborator operation is invoked at most
\* once, whether the call succeeds or fails: a list request makes at most one
\* Cache.ListMessages and one DB.ListMessages call, a create request at most
\* one DB.InsertMessage and one Cache.InsertMessage call, and no request
\* invokes an operation twice.
C16_NoRetry ==
    \A r \in StubProcs :
        /\ \A op \in ListOps \cup InsertOps : NCalls(r, op) <= 1
        /\ \A i \in 1 .. Len(calls[r]) : calls[r][i].op \in OpsOf(req[r].kind)

\* a request has ended after its second collaborator call failed, having
\* invoked the failed operation once
C16_Witness ==
    \E r \in StubProcs :
        /\ pc[r] = "done"
        /\ Len(calls[r]) = 2
        /\ calls[r][2].err # NoErr
        /\ NCalls(r, calls[r][2].op) = 1

\* C17: in every create request whose durable-store insert succeeds,
\* Cache.InsertMessage is called next, after the insert returned, with exactly
\* the message the durable store returned (identity, text, author and creation
\* timestamp), and the response reports that same message.
C17_MirrorsTheReturnedMessage ==
    \A r \in StubProcs :
        (DBInserted(r) /\ calls[r][1].err = NoErr) =>
            /\ pc[r] \in {"create_cache", "done"}
            /\ pc[r] = "create_cache" => Len(calls[r]) = 1 /\ msg[r] = calls[r][1].ret
            /\ pc[r] = "done" =>
                  /\ Len(calls[r]) = 2
                  /\ calls[r][1].op = "DB.InsertMessage"
                  /\ calls[r][2].op = "Cache.InsertMessage"
                  /\ calls[r][2].args = <<calls[r][1].ret>>
                  /\ Len(resp[r]) = 1
                  /\ resp[r][1].body = CreateResponse(calls[r][2].args[1])

\* a create request has mirrored and reported a message whose identity and
\* timestamp differ from those of the message it sent to the durable store
C17_Witness ==
    \E r \in StubProcs :
        /\ Ended(r, "create")
        /\ Len(calls[r]) = 2
        /\ calls[r][1].err = NoErr
        /\ calls[r][2].args[1].ID # calls[r][1].args[1].ID
        /\ calls[r][2].args[1].CreatedAt # calls[r][1].args[1].CreatedAt
        /\ resp[r][1].body = CreateResponse(calls[r][1].ret)

\* every stored message has been mirrored and the cache still holds it
AllMirrored == \A i \in 1 .. Len(db) : \E j \in 1 .. Len(cache) : cache[j] = db[i]

\* C18: with the requests served one at a time, every insert and mirror
\* write successful and the cache holding the mirrored messages newest first,
\* a list request that reads its stores without error answers 200 with
\* exactly the newest min(10, n) of the n stored messages, newest first, none
\* of them twice and none skipped.
C18_ListIsTheNewestPage ==
    (CreatesSucceeded /\ AllMirrored) =>
        \A r \in Procs :
            ListedLast(r) =>
                /\ Len(resp[r]) = 1
                /\ resp[r][1].status = StatusOK
                /\ \E page \in NewestPages : resp[r][1].body = ListResponse(page)
                /\ NoDuplicates(resp[r][1].body.messages)

\* a list request has answered with a full page, headed by the message of a
\* create request served before it, out of more than ten stored messages
C18_Witness ==
    \E r \in Procs :
        /\ CreatesSucceeded
        /\ AllMirrored
        /\ ListedLast(r)
        /\ Len(db) > pageSize
        /\ Len(resp[r][1].body.messages) = pageSize
        /\ \E q \in Procs :
              /\ q < r
              /\ Ended(q, "create")
              /\ Len(calls[q]) = 2
              /\ resp[r][1].body.messages[1].id = calls[q][1].ret.ID

\* list request r is taken or takes a step
ListStep(r) ==
    /\ req'[r].kind = "list"
    /\ pc'[r] # pc[r] \/ calls'[r] # calls[r] \/ resp'[r] # resp[r]

\* C19: a list request never writes: it calls neither DB.InsertMessage nor
\* Cache.InsertMessage, and no step of a list request changes the contents
\* of the cache or of the durable store, a fall back to the durable store
\* included.
C19_ListNeverWrites ==
    /\ [](\A r \in Procs :
             Serving(r, "list") =>
                 \A i \in 1 .. Len(calls[r]) : calls[r][i].op \in ListOps)
    /\ [][\A r \in Procs : ListStep(r) => db' = db /\ cache' = cache]_vars

\* a list request has ended after the durable store, which holds a message
\* the cache lacks, returned messages to it
C19_Witness ==
    \E r \in Procs :
        /\ Ended(r, "list")
        /\ Len(calls[r]) = 2
        /\ Len(calls[r][2].ret) >= 1
        /\ Len(cache) < Len(db)

InFlight(r) == pc[r] \notin {"idle", "done"}

\* C20: provided every collaborator call returns, every request to any of
\* the three endpoints ends, and it ends with exactly one response written:
\* no response is written before the request ends, one is written when it
\* ends, on every path (success, decode error, cache error, durable-store
\* error, not implemented).
C20_ExactlyOneResponse ==
    /\ [](\A r \in StubProcs :
             /\ pc[r] = "done" => Len(resp[r]) = 1
             /\ pc[r] # "done" => Len(resp[r]) = 0)
    /\ \A r \in StubProcs : InFlight(r) ~> (pc[r] = "done")

\* a list request has ended with its one response, a 500, after the cache
\* read succeeded and the durable-store read failed
C20_Witness ==
    \E r \in StubProcs :
        /\ Ended(r, "list")
        /\ Len(calls[r]) = 2
        /\ calls[r][2].err # NoErr
        /\ Len(resp[r]) = 1
        /\ resp[r][1].status = StatusInternalServerError

====
